---------------------------- MODULE Spec2Model ----------------------------
(***************************************************************************)
(* webhookit (src/main.go): audit and gated destruction of GitHub          *)
(* webhooks.                                                               *)
(*                                                                         *)
(* A Go string on which the program works character by character (the     *)
(* -t flag, a status code, an operator's input line, the pass phrase) is   *)
(* a sequence of one-character strings.  Repository names, hook URLs and   *)
(* config URLs are only compared for equality and stay atomic strings.     *)
(***************************************************************************)
EXTENDS Integers, Sequences, FiniteSets

VARIABLES
    pc,                 \* position of the process in main/executeCheck/executeDestroy
    exitCode,           \* -1 while running, 0 normal return, 1 os.Exit(1) of printError
    outcome,            \* the final message printed ("" while none)
    action,             \* "check" | "destroy" | "" : the action main dispatched
    types,              \* executeDestroy: types returned by validateTypesFlag
    typesRegexString,   \* executeDestroy: convertTypesToRegex(types)
    duplicatesFlag,     \* -ds
    untriggeredFlag,    \* -u
    backupFlag,         \* -b ("" when absent)
    reposContainer,     \* reposContainer.Repos: sequence of repository names
    repoIdx,            \* index of the repository the `for _, repo` loop is at
    allWebHooks,        \* allWebHooks.Hooks: sequence of WebHook records
    hooksMap,           \* hooksMap of the current repository: URL -> HookWrapper
    visited,            \* keys the outer `for index := range hooksMap` has passed
    currentItem,        \* currentItem of the outer iteration waiting in duplicateDiff
    duplicateHookWrappers, \* the cluster handed to duplicateDiff (sequence of URLs)
    input,              \* the `input` variable of the prompt being answered
    stdin,              \* characters of os.Stdin typed but not yet consumed
    hooksToDestroy,     \* hooksToDestroy: sequence of hook URLs
    destroyIdx,         \* destroyWebHooks: index of the next URL to delete
    totalOutput,        \* the report: one block per repository
    passPhrase,         \* the generated pass phrase (<<>> before generation)
    backupFile,         \* the backup file: whether written, and the hooks in it
    log,                \* every remote request and backup write, in order
    prompts,            \* number of duplicateDiff invocations so far
    apiKey,             \* the package variable apiKey (WEBHOOKIT_API_KEY)
    typesFlag,          \* executeDestroy: its typesFlag argument
    probe               \* scratch state of the -t flag pipeline (SpecTypes)

vars == <<pc, exitCode, outcome, action, types, typesRegexString, duplicatesFlag,
          untriggeredFlag, backupFlag, reposContainer, repoIdx, allWebHooks,
          hooksMap, visited, currentItem, duplicateHookWrappers, input, stdin,
          hooksToDestroy, destroyIdx, totalOutput, passPhrase, backupFile, log,
          prompts, apiKey, typesFlag, probe>>

-----------------------------------------------------------------------------
(* Bounds of the model.                                                    *)

\* longest repository list read from the repos file
MaxRepos == 2
\* number of distinct clock values seeding generatePassPhrase
MaxSeeds == 1
\* longest single -t token explored by SpecTypes
MaxTokLen == 4
\* longest token of a two-token -t list explored by SpecTypes
MaxPairTokLen == 3

-----------------------------------------------------------------------------
(* strings, strconv                                                        *)

Digits == {"0", "1", "2", "3", "4", "5", "6", "7", "8", "9"}

DigitSeq == <<"0", "1", "2", "3", "4", "5", "6", "7", "8", "9">>

UpperLetters == <<"A", "B", "C", "D", "E", "F", "G", "H", "I", "J", "K", "L", "M",
                  "N", "O", "P", "Q", "R", "S", "T", "U", "V", "W", "X", "Y", "Z">>

LowerLetters == <<"a", "b", "c", "d", "e", "f", "g", "h", "i", "j", "k", "l", "m",
                  "n", "o", "p", "q", "r", "s", "t", "u", "v", "w", "x", "y", "z">>

UpperRune(c) ==
    IF \E i \in 1..26 : LowerLetters[i] = c
    THEN UpperLetters[CHOOSE i \in 1..26 : LowerLetters[i] = c]
    ELSE c

LowerRune(c) ==
    IF \E i \in 1..26 : UpperLetters[i] = c
    THEN LowerLetters[CHOOSE i \in 1..26 : UpperLetters[i] = c]
    ELSE c

\* strings.ToUpper
ToUpper(s) == [i \in 1..Len(s) |-> UpperRune(s[i])]

\* strings.ToLower
ToLower(s) == [i \in 1..Len(s) |-> LowerRune(s[i])]

IsSpace(c) == c \in {" ", "\t", "\n", "\r"}

RECURSIVE TrimLeft(_)
TrimLeft(s) == IF s # <<>> /\ IsSpace(Head(s)) THEN TrimLeft(Tail(s)) ELSE s

RECURSIVE TrimRight(_)
TrimRight(s) ==
    IF s # <<>> /\ IsSpace(s[Len(s)]) THEN TrimRight(SubSeq(s, 1, Len(s) - 1)) ELSE s

\* strings.TrimSpace
TrimSpace(s) == TrimRight(TrimLeft(s))

\* strings.Split(s, sep) for a one-character separator: Split("", ",") is [""]
RECURSIVE Split(_, _)
Split(s, sep) ==
    IF \E i \in 1..Len(s) : s[i] = sep
    THEN LET i == CHOOSE k \in 1..Len(s) :
                      s[k] = sep /\ \A j \in 1..(k - 1) : s[j] # sep
         IN  <<SubSeq(s, 1, i - 1)>> \o Split(SubSeq(s, i + 1, Len(s)), sep)
    ELSE <<s>>

\* strings.Join(parts, sep)
RECURSIVE Join(_, _)
Join(parts, sep) ==
    IF parts = <<>> THEN <<>>
    ELSE IF Len(parts) = 1 THEN parts[1]
    ELSE parts[1] \o sep \o Join(Tail(parts), sep)

\* strings.Replace(s, old, new, -1) for a one-character old
RECURSIVE Replace(_, _, _)
Replace(s, old, new) ==
    IF s = <<>> THEN <<>>
    ELSE (IF Head(s) = old THEN new ELSE <<Head(s)>>) \o Replace(Tail(s), old, new)

\* strconv.Itoa for a non-negative int
RECURSIVE Itoa(_)
Itoa(n) == IF n < 10 THEN <<DigitSeq[n + 1]>> ELSE Itoa(n \div 10) \o <<DigitSeq[(n % 10) + 1]>>

DigitValue(c) == (CHOOSE i \in 1..10 : DigitSeq[i] = c) - 1

RECURSIVE DigitsValue(_)
DigitsValue(s) ==
    IF s = <<>> THEN 0 ELSE DigitsValue(SubSeq(s, 1, Len(s) - 1)) * 10 + DigitValue(s[Len(s)])

\* strconv.Atoi: an optional sign, then one or more decimal digits
Atoi(s) ==
    LET body == IF s # <<>> /\ Head(s) \in {"+", "-"} THEN Tail(s) ELSE s
        ok   == body # <<>> /\ \A i \in 1..Len(body) : body[i] \in Digits
    IN  [err |-> ~ok,
         val |-> IF ~ok THEN 0
                 ELSE IF Head(s) = "-" THEN 0 - DigitsValue(body) ELSE DigitsValue(body)]

-----------------------------------------------------------------------------
(* regexp: a compiled expression is a sequence of alternatives, each a     *)
(* sequence of character classes (sets of characters).                     *)

\* one alternative of a pattern text: `\d` is the digit class, any other
\* character of the alphabets used here stands for itself
RECURSIVE CompileAlt(_)
CompileAlt(s) ==
    IF s = <<>> THEN <<>>
    ELSE IF Len(s) >= 2 /\ s[1] = "\\" /\ s[2] = "d"
         THEN <<Digits>> \o CompileAlt(SubSeq(s, 3, Len(s)))
         ELSE <<{s[1]}>> \o CompileAlt(Tail(s))

\* regexp.Compile
Compile(text) == LET alts == Split(text, "|") IN [i \in 1..Len(alts) |-> CompileAlt(alts[i])]

\* (*Regexp).MatchString: the expression matches somewhere in s (unanchored)
MatchString(re, s) ==
    \E a \in 1..Len(re) :
        \E start \in 1..(Len(s) + 1) :
            /\ start + Len(re[a]) - 1 <= Len(s)
            /\ \A i \in 1..Len(re[a]) : s[start + i - 1] \in re[a][i]


-----------------------------------------------------------------------------
(* The remote API and the operator's keyboard.                             *)

\* const requestDelay, in milliseconds: declared, and used by no statement of
\* the program
requestDelay == 50

Repos == {"o/r1", "o/r2"}

\* a repository with two clusters, for the runs of SpecOne
SoloRepos == {"o/r3"}

\* the hooks the remote holds for each repository: [URL, ConfigURL, Code]
\* stand for WebHook.URL, WebHook.Config.URL and WebHook.LastResponse.Code
Remote ==
    [r \in Repos \cup SoloRepos |->
        IF r = "o/r1"
        THEN << [URL |-> "e1", ConfigURL |-> "u1", Code |-> 404],
                [URL |-> "e2", ConfigURL |-> "u1", Code |-> 200],
                [URL |-> "e3", ConfigURL |-> "u1", Code |-> 0] >>
        ELSE IF r = "o/r2"
        THEN << [URL |-> "e4", ConfigURL |-> "u1", Code |-> 404],
                [URL |-> "e5", ConfigURL |-> "", Code |-> 0],
                [URL |-> "e6", ConfigURL |-> "", Code |-> 200] >>
        ELSE << [URL |-> "e7", ConfigURL |-> "u2", Code |-> 404],
                [URL |-> "e8", ConfigURL |-> "u2", Code |-> 200],
                [URL |-> "e9", ConfigURL |-> "u3", Code |-> 0],
                [URL |-> "e10", ConfigURL |-> "u3", Code |-> 500] >>]

\* what a GET can come to: 200 with a JSON list, a transport failure,
\* another status, or a body that does not decode
FetchOutcomes == {"ok", "transport", "status", "decode"}

\* what a DELETE can come to: 204, another status, a transport failure
DeleteOutcomes == {"204", "status", "transport"}

\* values of the -t flag the runs of Spec are started with
MainTypesFlags ==
    { <<"n", "o", "n", "e">>, <<"4", "X", "X">>, <<"4", "X">> }

\* permutations of a finite set: the orders a `range` over a map can take
Perms(S) ==
    {f \in [1..Cardinality(S) -> S] : \A i, j \in 1..Cardinality(S) : f[i] = f[j] => i = j}

\* all strings over alphabet A of length 1..n
Strs(A, n) == UNION {[1..k -> A] : k \in 1..n}

EmptyMap == [u \in {} |-> 0]

-----------------------------------------------------------------------------
(* fmt.Scanln(&input) on the pending characters buf: blanks are skipped,   *)
(* the first blank-delimited word is stored, and the rest of the line must *)
(* be blank; a newline before any word leaves the variable as it was.  The *)
(* first character of a second word is consumed when the error "expected   *)
(* newline" is raised, and what follows it stays unread.                   *)

RECURSIVE SkipBlanks(_)
SkipBlanks(s) ==
    IF s # <<>> /\ IsSpace(Head(s)) /\ Head(s) # "\n" THEN SkipBlanks(Tail(s)) ELSE s

RECURSIVE WordLen(_)
WordLen(s) == IF s = <<>> \/ IsSpace(Head(s)) THEN 0 ELSE 1 + WordLen(Tail(s))

RECURSIVE AfterItem(_)
AfterItem(s) ==
    IF s = <<>> THEN <<>>
    ELSE IF Head(s) = "\n" THEN Tail(s)
    ELSE IF IsSpace(Head(s)) THEN AfterItem(Tail(s))
    ELSE Tail(s)

Scanln(buf, old) ==
    LET b == SkipBlanks(buf)
    IN  IF b = <<>> THEN [val |-> old, rest |-> <<>>]
        ELSE IF Head(b) = "\n" THEN [val |-> old, rest |-> Tail(b)]
        ELSE [val  |-> SubSeq(b, 1, WordLen(b)),
              rest |-> AfterItem(SubSeq(b, WordLen(b) + 1, Len(b)))]

-----------------------------------------------------------------------------
(* Pure functions of main.go.                                              *)

\* HookWrapper.canDestroy
canDestroy(d) == d.Destroy /\ ~d.DestroySkip

\* checkAPIKey
checkAPIKey(key) == key # ""

\* the expression validateTypesFlag compiles: \d{3}|\d[xX][xX]|\d\d[xX]
TypesShapeRegex ==
    << <<Digits, Digits, Digits>>,
       <<Digits, {"x", "X"}, {"x", "X"}>>,
       <<Digits, Digits, {"x", "X"}>> >>

\* validateTypesFlag: [types, err]
validateTypesFlag(flag) ==
    IF ToLower(flag) = <<"n", "o", "n", "e">>
    THEN [types |-> << <<"N", "/", "A">> >>, err |-> FALSE]
    ELSE LET split == Split(flag, ",")
             failedTypes == {i \in 1..Len(split) : ~MatchString(TypesShapeRegex, split[i])}
         IN  [types |-> [i \in 1..Len(split) |-> ToUpper(split[i])],
              err   |-> failedTypes # {}]

\* convertTypesToRegex
convertTypesToRegex(ts) ==
    Join([i \in 1..Len(ts) |-> Replace(ts[i], "X", <<"\\", "d">>)], <<"|">>)

\* math/rand after rand.Seed(seed): the i-th draw is a function of the seed
\* (a linear congruential stand-in for the library's generator)
RECURSIVE RandState(_, _)
RandState(seed, i) == IF i = 0 THEN seed ELSE (RandState(seed, i - 1) * 37 + 11) % 101

RandIntn(seed, i, n) == RandState(seed, i) % n

\* generatePassPhrase: bytes[i] = byte(65 + rand.Intn(25))
generatePassPhrase(length, seed) ==
    [i \in 1..length |-> UpperLetters[(65 + RandIntn(seed, i, 25)) - 64]]

\* uniqueAppend
uniqueAppend(array, item) ==
    IF \E i \in 1..Len(array) : array[i] = item THEN array ELSE Append(array, item)

\* makeAPIRequest: the error it returns (TRUE: an error)
makeAPIRequest(result) == result # "ok"

\* getWebHooks returning the hooks in the reverse of the remote's order
getWebHooks_Reversed(repoName, result) ==
    IF makeAPIRequest(result)
    THEN [hooks |-> <<>>, err |-> TRUE]
    ELSE [hooks |-> [i \in 1..Len(Remote[repoName]) |->
                        Remote[repoName][Len(Remote[repoName]) + 1 - i]],
          err |-> FALSE]

\* getWebHooks with the hooks returned beside a swallowed error
getWebHooks_KeepHooks(repoName, result) == [hooks |-> Remote[repoName], err |-> FALSE]

\* getWebHooks: [hooks, err]
getWebHooks(repoName, result) ==
    IF makeAPIRequest(result)
    THEN [hooks |-> <<>>, err |-> TRUE]
    ELSE [hooks |-> Remote[repoName], err |-> FALSE]

\* destroyWebHook: the error it returns (TRUE: an error)
destroyWebHook(result) == result # "204"

\* the map of HookWrappers with every wrapper built already marked
MakeHooksMap_Marked(hooks) ==
    [u \in {hooks[i].URL : i \in 1..Len(hooks)} |->
        LET last == CHOOSE i \in 1..Len(hooks) :
                        hooks[i].URL = u /\ \A j \in (i + 1)..Len(hooks) : hooks[j].URL # u
        IN  [Hook        |-> hooks[last],
             Duplicate   |-> FALSE,
             DestroySkip |-> FALSE,
             Destroy     |-> TRUE,
             Code        |-> ToUpper(Itoa(hooks[last].Code))]]

\* the map of HookWrappers built from webHooks.Hooks: a later hook with the
\* same URL replaces an earlier one
MakeHooksMap(hooks) ==
    [u \in {hooks[i].URL : i \in 1..Len(hooks)} |->
        LET last == CHOOSE i \in 1..Len(hooks) :
                        hooks[i].URL = u /\ \A j \in (i + 1)..Len(hooks) : hooks[j].URL # u
        IN  [Hook        |-> hooks[last],
             Duplicate   |-> FALSE,
             DestroySkip |-> FALSE,
             Destroy     |-> FALSE,
             Code        |-> ToUpper(Itoa(hooks[last].Code))]]

\* the inner loop without its skip of wrappers already marked Duplicate
RECURSIVE InnerLoop_NoSkip(_, _, _, _)
InnerLoop_NoSkip(order, m, cur, dups) ==
    IF order = <<>> THEN [m |-> m, dups |-> dups]
    ELSE LET iterateItem == m[Head(order)].Hook.URL
         IN  IF cur = iterateItem
             THEN InnerLoop_NoSkip(Tail(order), m, cur, dups)
             ELSE IF /\ m[cur].Hook.ConfigURL # ""
                     /\ m[cur].Hook.ConfigURL = m[iterateItem].Hook.ConfigURL
                  THEN InnerLoop_NoSkip(Tail(order),
                                        [m EXCEPT ![cur].Duplicate = TRUE,
                                                  ![iterateItem].Duplicate = TRUE],
                                        cur, Append(dups, iterateItem))
                  ELSE InnerLoop_NoSkip(Tail(order), m, cur, dups)

\* the inner loop without its test for an empty config URL
RECURSIVE InnerLoop_NoEmptyGuard(_, _, _, _)
InnerLoop_NoEmptyGuard(order, m, cur, dups) ==
    IF order = <<>> THEN [m |-> m, dups |-> dups]
    ELSE LET iterateItem == m[Head(order)].Hook.URL
         IN  IF cur = iterateItem \/ m[iterateItem].Duplicate
             THEN InnerLoop_NoEmptyGuard(Tail(order), m, cur, dups)
             ELSE IF m[cur].Hook.ConfigURL = m[iterateItem].Hook.ConfigURL
                  THEN InnerLoop_NoEmptyGuard(Tail(order),
                                              [m EXCEPT ![cur].Duplicate = TRUE,
                                                        ![iterateItem].Duplicate = TRUE],
                                              cur, Append(dups, iterateItem))
                  ELSE InnerLoop_NoEmptyGuard(Tail(order), m, cur, dups)

\* the inner `for dIndex := range hooksMap` of the duplicate search, run in
\* the iteration order `order`: [m, dups]
RECURSIVE InnerLoop(_, _, _, _)
InnerLoop(order, m, cur, dups) ==
    IF order = <<>> THEN [m |-> m, dups |-> dups]
    ELSE LET iterateItem == m[Head(order)].Hook.URL
         IN  IF cur = iterateItem \/ m[iterateItem].Duplicate
             THEN InnerLoop(Tail(order), m, cur, dups)
             ELSE IF m[cur].Hook.ConfigURL # ""
                     /\ m[cur].Hook.ConfigURL = m[iterateItem].Hook.ConfigURL
                  THEN InnerLoop(Tail(order),
                                 [m EXCEPT ![cur].Duplicate = TRUE,
                                           ![iterateItem].Duplicate = TRUE],
                                 cur, Append(dups, iterateItem))
                  ELSE InnerLoop(Tail(order), m, cur, dups)

\* "Check if hook should be destroyed" of executeDestroy
MarkDestroy(m, cur, regexText, untriggered) ==
    IF MatchString(Compile(regexText), m[cur].Code) \/ (untriggered /\ m[cur].Code = <<"0">>)
    THEN [m EXCEPT ![cur].Destroy = TRUE]
    ELSE m

\* "Determine which hooks to destroy" putting each endpoint in front
RECURSIVE CollectDestroy_Prepend(_, _, _)
CollectDestroy_Prepend(order, m, acc) ==
    IF order = <<>> THEN acc
    ELSE CollectDestroy_Prepend(Tail(order), m,
                                IF canDestroy(m[Head(order)])
                                THEN <<m[Head(order)].Hook.URL>> \o acc
                                ELSE acc)

\* "Determine which hooks to destroy" of executeDestroy, in iteration order
RECURSIVE CollectDestroy(_, _, _)
CollectDestroy(order, m, acc) ==
    IF order = <<>> THEN acc
    ELSE CollectDestroy(Tail(order), m,
                        IF canDestroy(m[Head(order)])
                        THEN Append(acc, m[Head(order)].Hook.URL)
                        ELSE acc)

\* HookWrapper.ToString: the tags of one report line
ToString(d) == [URL |-> d.Hook.URL, Duplicate |-> d.Duplicate, ToBeDestroyed |-> canDestroy(d)]

\* the report block of one repository; the lines of a block come in map
\* iteration order, which the program does not control: a block is the set
\* of its lines
ReportBlock(name, m) ==
    [Name |-> name, Lines |-> {ToString(m[u]) : u \in DOMAIN m}]


-----------------------------------------------------------------------------
(* Inputs of a run.                                                        *)

\* the repos file: absent, not JSON, or a JSON list of at most MaxRepos names
RepoFiles ==
    { [state |-> "missing", repos |-> <<>>], [state |-> "garbage", repos |-> <<>>] }
    \cup { [state |-> "json", repos |-> l] : l \in UNION {[1..k -> Repos] : k \in 0..MaxRepos} }

\* lines the operator may type at the duplicate prompt
ResolverLines ==
    { <<"n">>, <<"0">>, <<"1", ",", "2">>, <<"0", ",", "0">>, <<"3">>,
      <<"0", ",", "x">>, <<"0", " ", "x">>, <<"0", " ", ",", "1">>, <<>> }

\* lines the operator may type at the confirmation prompt showing phrase p
ConfirmLines(p) ==
    { p, <<" ">> \o ToLower(p) \o <<" ">>, p \o <<" ", "x">>, <<>>, SubSeq(p, 1, Len(p) - 1) }

ProbeOff ==
    [pc |-> "off", typesFlag |-> <<>>, types |-> <<>>, err |-> FALSE,
     regex |-> <<>>, code |-> <<>>, matched |-> FALSE]

NoBackup == [written |-> FALSE, hooks |-> <<>>]

-----------------------------------------------------------------------------
(* The run.                                                                *)

InitRun ==
    /\ pc = "main"
    /\ exitCode = -1
    /\ outcome = ""
    /\ action = ""
    /\ types = <<>>
    /\ typesRegexString = <<>>
    /\ duplicatesFlag = FALSE
    /\ untriggeredFlag = FALSE
    /\ backupFlag = ""
    /\ reposContainer = <<>>
    /\ repoIdx = 1
    /\ allWebHooks = <<>>
    /\ hooksMap = EmptyMap
    /\ visited = {}
    /\ currentItem = ""
    /\ duplicateHookWrappers = <<>>
    /\ input = <<>>
    /\ stdin = <<>>
    /\ hooksToDestroy = <<>>
    /\ destroyIdx = 0
    /\ totalOutput = <<>>
    /\ passPhrase = <<>>
    /\ backupFile = NoBackup
    /\ log = <<>>
    /\ prompts = 0
    /\ typesFlag = <<>>

Init ==
    /\ InitRun
    /\ apiKey \in {"", "key"}
    /\ probe = ProbeOff

\* printError (code 1) or the return of main (code 0)
Exit(code, msg) ==
    /\ pc' = "exit"
    /\ exitCode' = code
    /\ outcome' = msg

\* where the `for _, repo := range reposContainer.Repos` loop goes next
AfterLoopPc(nextIdx, repos, act) ==
    IF nextIdx <= Len(repos) THEN "fetch"
    ELSE IF act = "check" THEN "checkFinish" ELSE "planned"

\* main: flag validation, retrieveRepos, checkAPIKey, dispatch
Main(checkFlag, destroyFlag, filePath, repoFlag, tFlag, ds, u, b, file) ==
    /\ pc = "main"
    /\ IF ~(checkFlag \/ destroyFlag)
       THEN /\ Exit(1, "You must select an option: --c or --d")
            /\ UNCHANGED <<action, reposContainer, typesFlag, duplicatesFlag,
                           untriggeredFlag, backupFlag>>
       ELSE IF checkFlag /\ destroyFlag
       THEN /\ Exit(1, "You can only select one option")
            /\ UNCHANGED <<action, reposContainer, typesFlag, duplicatesFlag,
                           untriggeredFlag, backupFlag>>
       ELSE IF filePath # "" /\ repoFlag # ""
       THEN /\ Exit(1, "You can only specify either a file path or repo")
            /\ UNCHANGED <<action, reposContainer, typesFlag, duplicatesFlag,
                           untriggeredFlag, backupFlag>>
       ELSE IF repoFlag = "" /\ (filePath = "" \/ file.state = "missing")
       THEN \* retrieveRepos: os.Open fails
            /\ Exit(1, "Issue opening repos file:")
            /\ UNCHANGED <<action, reposContainer, typesFlag, duplicatesFlag,
                           untriggeredFlag, backupFlag>>
       ELSE LET repos == IF repoFlag # "" THEN <<repoFlag>> ELSE file.repos
            IN  IF ~checkAPIKey(apiKey)
                THEN /\ Exit(1, "API key not found.")
                     /\ reposContainer' = repos
                     /\ UNCHANGED <<action, typesFlag, duplicatesFlag,
                                    untriggeredFlag, backupFlag>>
                ELSE /\ reposContainer' = repos
                     /\ backupFlag' = b
                     /\ UNCHANGED <<exitCode, outcome>>
                     /\ IF checkFlag
                        THEN /\ action' = "check"
                             /\ pc' = "executeCheck"
                             /\ UNCHANGED <<typesFlag, duplicatesFlag, untriggeredFlag>>
                        ELSE /\ action' = "destroy"
                             /\ pc' = "executeDestroy"
                             /\ typesFlag' = tFlag
                             /\ duplicatesFlag' = ds
                             /\ untriggeredFlag' = u
    /\ UNCHANGED <<types, typesRegexString, repoIdx, allWebHooks, hooksMap, visited,
                   currentItem, duplicateHookWrappers, input, stdin, hooksToDestroy,
                   destroyIdx, totalOutput, passPhrase, backupFile, log, prompts,
                   apiKey, probe>>

\* executeCheck up to its repository loop
BeginCheck ==
    /\ pc = "executeCheck"
    /\ pc' = AfterLoopPc(1, reposContainer, "check")
    /\ UNCHANGED <<exitCode, outcome, action, types, typesRegexString, duplicatesFlag,
                   untriggeredFlag, backupFlag, reposContainer, repoIdx, allWebHooks,
                   hooksMap, visited, currentItem, duplicateHookWrappers, input, stdin,
                   hooksToDestroy, destroyIdx, totalOutput, passPhrase, backupFile,
                   log, prompts, apiKey, typesFlag, probe>>

\* executeDestroy up to its repository loop: validateTypesFlag, convertTypesToRegex
BeginDestroy ==
    /\ pc = "executeDestroy"
    /\ LET v == validateTypesFlag(typesFlag)
       IN  IF v.err
           THEN /\ Exit(1, "Invalid type options specified:")
                /\ UNCHANGED <<types, typesRegexString>>
           ELSE /\ types' = v.types
                /\ typesRegexString' = convertTypesToRegex(v.types)
                /\ pc' = AfterLoopPc(1, reposContainer, "destroy")
                /\ UNCHANGED <<exitCode, outcome>>
    /\ UNCHANGED <<action, duplicatesFlag, untriggeredFlag, backupFlag, reposContainer,
                   repoIdx, allWebHooks, hooksMap, visited, currentItem,
                   duplicateHookWrappers, input, stdin, hooksToDestroy, destroyIdx,
                   totalOutput, passPhrase, backupFile, log, prompts, apiKey,
                   typesFlag, probe>>

\* head of the repository loop of executeCheck and executeDestroy: getWebHooks,
\* `continue` on an error, else the hooks join allWebHooks and hooksMap is built
Fetch(result) ==
    /\ pc = "fetch"
    /\ LET repo == reposContainer[repoIdx]
           got  == getWebHooks(repo, result)
       IN  /\ log' = Append(log, [op |-> "GET", target |-> repo,
                                   ok |-> ~makeAPIRequest(result)])
           /\ IF got.err
              THEN /\ repoIdx' = repoIdx + 1
                   /\ pc' = AfterLoopPc(repoIdx + 1, reposContainer, action)
                   /\ UNCHANGED <<allWebHooks, hooksMap>>
              ELSE /\ allWebHooks' = IF backupFlag # "" THEN allWebHooks \o got.hooks
                                     ELSE allWebHooks
                   /\ hooksMap' = MakeHooksMap(got.hooks)
                   /\ pc' = "classify"
                   /\ UNCHANGED repoIdx
    /\ visited' = {}
    /\ UNCHANGED <<exitCode, outcome, action, types, typesRegexString, duplicatesFlag,
                   untriggeredFlag, backupFlag, reposContainer, currentItem,
                   duplicateHookWrappers, input, stdin, hooksToDestroy, destroyIdx,
                   totalOutput, passPhrase, backupFile, prompts, apiKey, typesFlag,
                   probe>>

\* executeCheck: one iteration of `for index := range hooksMap`
CheckClassify ==
    /\ pc = "classify"
    /\ action = "check"
    /\ \E index \in DOMAIN hooksMap \ visited : \E order \in Perms(DOMAIN hooksMap) :
          /\ hooksMap' = InnerLoop(order, hooksMap, index, <<index>>).m
          /\ visited' = visited \cup {index}
    /\ UNCHANGED <<pc, exitCode, outcome, action, types, typesRegexString,
                   duplicatesFlag, untriggeredFlag, backupFlag, reposContainer, repoIdx,
                   allWebHooks, currentItem, duplicateHookWrappers, input, stdin,
                   hooksToDestroy, destroyIdx, totalOutput, passPhrase, backupFile,
                   log, prompts, apiKey, typesFlag, probe>>

\* executeDestroy: one iteration of `for index := range hooksMap`, up to the
\* prompt of duplicateDiff when a cluster was found and -ds is set
DestroyClassify ==
    /\ pc = "classify"
    /\ action = "destroy"
    /\ \E index \in DOMAIN hooksMap \ visited : \E order \in Perms(DOMAIN hooksMap) :
         LET r == InnerLoop(order, hooksMap, index, <<index>>)
         IN  IF Len(r.dups) > 1 /\ duplicatesFlag
             THEN /\ hooksMap' = r.m
                  /\ pc' = "duplicateDiff"
                  /\ currentItem' = index
                  /\ duplicateHookWrappers' = r.dups
                  /\ prompts' = prompts + 1
                  /\ UNCHANGED visited
             ELSE /\ hooksMap' = MarkDestroy(r.m, index, typesRegexString,
                                             untriggeredFlag)
                  /\ visited' = visited \cup {index}
                  /\ UNCHANGED <<pc, currentItem, duplicateHookWrappers, prompts>>
    /\ UNCHANGED <<exitCode, outcome, action, types, typesRegexString, duplicatesFlag,
                   untriggeredFlag, backupFlag, reposContainer, repoIdx, allWebHooks,
                   input, stdin, hooksToDestroy, destroyIdx, totalOutput, passPhrase,
                   backupFile, log, apiKey, typesFlag, probe>>

\* the operator answers a waiting prompt with one line
OperatorTypes ==
    /\ pc \in {"duplicateDiff", "confirm"}
    /\ stdin = <<>>
    /\ \E line \in (IF pc = "duplicateDiff" THEN ResolverLines
                     ELSE ConfirmLines(passPhrase)) :
          stdin' = line \o <<"\n">>
    /\ UNCHANGED <<pc, exitCode, outcome, action, types, typesRegexString,
                   duplicatesFlag, untriggeredFlag, backupFlag, reposContainer, repoIdx,
                   allWebHooks, hooksMap, visited, currentItem, duplicateHookWrappers,
                   input, hooksToDestroy, destroyIdx, totalOutput, passPhrase,
                   backupFile, log, prompts, apiKey, typesFlag, probe>>

\* duplicateDiff: "Check all options are valid" for a cluster of n hooks
ResolverValid(splitInput, n) ==
    \A i \in 1..Len(splitInput) :
        /\ ~Atoi(splitInput[i]).err
        /\ Atoi(splitInput[i]).val >= 0
        /\ Atoi(splitInput[i]).val <= n - 1

\* "Set destroy of each hook" setting it for the whole cluster
ResolverApply_WholeCluster(m, wrappers, splitInput) ==
    [u \in DOMAIN m |->
        IF \E i \in 1..Len(wrappers) : wrappers[i] = u
        THEN [m[u] EXCEPT !.Destroy = TRUE]
        ELSE m[u]]

\* duplicateDiff: "Set destroy of each hook"
ResolverApply(m, wrappers, splitInput) ==
    [u \in DOMAIN m |->
        IF \E i \in 1..Len(splitInput) : wrappers[Atoi(splitInput[i]).val + 1] = u
        THEN [m[u] EXCEPT !.Destroy = TRUE]
        ELSE m[u]]

\* duplicateDiff: one turn of its input loop; when the loop is left, the rest
\* of the iteration of executeDestroy that called it
Resolve ==
    /\ pc = "duplicateDiff"
    /\ stdin # <<>>
    /\ LET read       == Scanln(stdin, input)
           in         == Replace(ToUpper(read.val), " ", <<>>)
           splitInput == Split(in, ",")
           none       == Len(splitInput) = 1 /\ splitInput[1] = <<"N">>
           valid      == ResolverValid(splitInput, Len(duplicateHookWrappers))
       IN  /\ stdin' = read.rest
           /\ IF ~none /\ ~valid
              THEN /\ input' = in
                   /\ UNCHANGED <<pc, hooksMap, visited, currentItem,
                                  duplicateHookWrappers>>
              ELSE /\ hooksMap' =
                        MarkDestroy(IF none THEN hooksMap
                                    ELSE ResolverApply(hooksMap, duplicateHookWrappers,
                                                       splitInput),
                                    currentItem, typesRegexString, untriggeredFlag)
                   /\ visited' = visited \cup {currentItem}
                   /\ pc' = "classify"
                   /\ currentItem' = ""
                   /\ duplicateHookWrappers' = <<>>
                   /\ input' = <<>>
    /\ UNCHANGED <<exitCode, outcome, action, types, typesRegexString, duplicatesFlag,
                   untriggeredFlag, backupFlag, reposContainer, repoIdx, allWebHooks,
                   hooksToDestroy, destroyIdx, totalOutput, passPhrase, backupFile,
                   log, prompts, apiKey, typesFlag, probe>>

\* executeCheck: the report of one repository, and on to the next one
CheckFold ==
    /\ pc = "classify"
    /\ action = "check"
    /\ visited = DOMAIN hooksMap
    /\ totalOutput' = Append(totalOutput,
                             ReportBlock(reposContainer[repoIdx], hooksMap))
    /\ hooksMap' = EmptyMap
    /\ visited' = {}
    /\ repoIdx' = repoIdx + 1
    /\ pc' = AfterLoopPc(repoIdx + 1, reposContainer, action)
    /\ UNCHANGED <<exitCode, outcome, action, types, typesRegexString, duplicatesFlag,
                   untriggeredFlag, backupFlag, reposContainer, allWebHooks,
                   currentItem, duplicateHookWrappers, input, stdin, hooksToDestroy,
                   destroyIdx, passPhrase, backupFile, log, prompts, apiKey, typesFlag,
                   probe>>

\* executeDestroy: "Determine which hooks to destroy then output all results"
\* for one repository, and on to the next one
DestroyFold ==
    /\ pc = "classify"
    /\ action = "destroy"
    /\ visited = DOMAIN hooksMap
    /\ \E order \in Perms(DOMAIN hooksMap) :
          hooksToDestroy' = CollectDestroy(order, hooksMap, hooksToDestroy)
    /\ totalOutput' = Append(totalOutput,
                             ReportBlock(reposContainer[repoIdx], hooksMap))
    /\ hooksMap' = EmptyMap
    /\ visited' = {}
    /\ repoIdx' = repoIdx + 1
    /\ pc' = AfterLoopPc(repoIdx + 1, reposContainer, action)
    /\ UNCHANGED <<exitCode, outcome, action, types, typesRegexString, duplicatesFlag,
                   untriggeredFlag, backupFlag, reposContainer, allWebHooks,
                   currentItem, duplicateHookWrappers, input, stdin, destroyIdx,
                   passPhrase, backupFile, log, prompts, apiKey, typesFlag, probe>>

\* executeBackup dropping the error of backupWebHooks
executeBackup_DropsError(filepath, writeOk) == FALSE

\* executeBackup: the error it returns (TRUE: an error) for a write that
\* succeeds (writeOk) or fails
executeBackup(filepath, writeOk) == filepath # "" /\ ~writeOk

\* executeCheck after its loop: executeBackup, the report, "Check complete."
CheckFinish(writeOk) ==
    /\ pc = "checkFinish"
    /\ IF backupFlag = ""
       THEN /\ writeOk
            /\ UNCHANGED <<backupFile, log>>
       ELSE /\ log' = Append(log, [op |-> "WRITE", target |-> backupFlag, ok |-> writeOk])
            /\ backupFile' = IF writeOk THEN [written |-> TRUE, hooks |-> allWebHooks]
                             ELSE backupFile
    /\ IF executeBackup(backupFlag, writeOk)
       THEN Exit(1, "Backup failed:")
       ELSE Exit(0, "Check complete.")
    /\ UNCHANGED <<action, types, typesRegexString, duplicatesFlag, untriggeredFlag,
                   backupFlag, reposContainer, repoIdx, allWebHooks, hooksMap, visited,
                   currentItem, duplicateHookWrappers, input, stdin, hooksToDestroy,
                   destroyIdx, totalOutput, passPhrase, prompts, apiKey, typesFlag,
                   probe>>

\* the empty-set test with its comparison turned (hookCount < 0)
\* "Return if no hooks to destroy were found" also returning for one hook
NothingToDestroy_One(hooks) == Len(hooks) <= 1

NothingToDestroy_Never(hooks) == Len(hooks) < 0

\* executeDestroy: "Return if no hooks to destroy were found"
NothingToDestroy(hooks) == Len(hooks) = 0

\* executeDestroy after its loop: the empty-set return, executeBackup,
\* generatePassPhrase and the confirmation prompt
PlanEnd(writeOk, seed) ==
    /\ pc = "planned"
    /\ IF NothingToDestroy(hooksToDestroy)
       THEN /\ writeOk /\ seed = 1
            /\ Exit(0, "Found no hooks to destroy.")
            /\ UNCHANGED <<backupFile, log, passPhrase>>
       ELSE /\ IF backupFlag = ""
               THEN /\ writeOk
                    /\ UNCHANGED <<backupFile, log>>
               ELSE /\ log' = Append(log, [op |-> "WRITE", target |-> backupFlag,
                                           ok |-> writeOk])
                    /\ backupFile' = IF writeOk
                                     THEN [written |-> TRUE, hooks |-> allWebHooks]
                                     ELSE backupFile
            /\ IF executeBackup(backupFlag, writeOk)
               THEN /\ seed = 1
                    /\ Exit(1, "Backup failed:")
                    /\ UNCHANGED passPhrase
               ELSE /\ passPhrase' = generatePassPhrase(8, seed)
                    /\ pc' = "confirm"
                    /\ UNCHANGED <<exitCode, outcome>>
    /\ UNCHANGED <<action, types, typesRegexString, duplicatesFlag, untriggeredFlag,
                   backupFlag, reposContainer, repoIdx, allWebHooks, hooksMap, visited,
                   currentItem, duplicateHookWrappers, input, stdin, hooksToDestroy,
                   destroyIdx, totalOutput, prompts, apiKey, typesFlag, probe>>

\* executeDestroy: the confirmation line is read and compared
Confirm ==
    /\ pc = "confirm"
    /\ stdin # <<>>
    /\ LET read == Scanln(stdin, input)
           in   == TrimSpace(ToUpper(read.val))
       IN  /\ stdin' = read.rest
           /\ input' = in
           /\ IF in = passPhrase
              THEN /\ pc' = "destroyWebHooks"
                   /\ destroyIdx' = 1
                   /\ UNCHANGED <<exitCode, outcome>>
              ELSE /\ Exit(0, "Destruction aborted.")
                   /\ UNCHANGED destroyIdx
    /\ UNCHANGED <<action, types, typesRegexString, duplicatesFlag, untriggeredFlag,
                   backupFlag, reposContainer, repoIdx, allWebHooks, hooksMap, visited,
                   currentItem, duplicateHookWrappers, hooksToDestroy, totalOutput,
                   passPhrase, backupFile, log, prompts, apiKey, typesFlag, probe>>

\* destroyWebHooks: whether its loop returns after an iteration whose
\* destroyWebHook returned err (errorString is then not empty)
destroyWebHooksReturns(err) == err

\* destroyWebHooks: one iteration of `for _, url := range webHookURLs`, and
\* what executeDestroy prints when it returns
DestroyStep(result) ==
    /\ pc = "destroyWebHooks"
    /\ LET url == hooksToDestroy[destroyIdx]
           err == destroyWebHook(result)
       IN  /\ log' = Append(log, [op |-> "DELETE", target |-> url, ok |-> ~err])
           /\ IF destroyWebHooksReturns(err)
              THEN /\ Exit(1, "Error destroying all web hooks")
                   /\ UNCHANGED destroyIdx
              ELSE IF destroyIdx = Len(hooksToDestroy)
              THEN /\ IF err THEN Exit(1, "Error destroying all web hooks")
                             ELSE Exit(0, "Destruction completed.")
                   /\ destroyIdx' = destroyIdx + 1
              ELSE /\ destroyIdx' = destroyIdx + 1
                   /\ UNCHANGED <<pc, exitCode, outcome>>
    /\ UNCHANGED <<action, types, typesRegexString, duplicatesFlag, untriggeredFlag,
                   backupFlag, reposContainer, repoIdx, allWebHooks, hooksMap, visited,
                   currentItem, duplicateHookWrappers, input, stdin, hooksToDestroy,
                   totalOutput, passPhrase, backupFile, prompts, apiKey, typesFlag,
                   probe>>

Next ==
    \/ /\ pc = "main"
       /\ \E checkFlag, destroyFlag, ds, u \in BOOLEAN :
            \E filePath \in {"", "repos.json"}, repoFlag \in {"", "o/r1"},
               tFlag \in MainTypesFlags, b \in {"", "backup.json"}, file \in RepoFiles :
               Main(checkFlag, destroyFlag, filePath, repoFlag, tFlag, ds, u, b, file)
    \/ BeginCheck
    \/ BeginDestroy
    \/ pc = "fetch" /\ \E result \in FetchOutcomes : Fetch(result)
    \/ CheckClassify
    \/ DestroyClassify
    \/ OperatorTypes
    \/ Resolve
    \/ CheckFold
    \/ DestroyFold
    \/ pc = "checkFinish" /\ \E writeOk \in BOOLEAN : CheckFinish(writeOk)
    \/ pc = "planned" /\ \E writeOk \in BOOLEAN, seed \in 1..MaxSeeds : PlanEnd(writeOk, seed)
    \/ Confirm
    \/ pc = "destroyWebHooks" /\ \E result \in DeleteOutcomes : DestroyStep(result)

Spec == Init /\ [][Next]_vars

-----------------------------------------------------------------------------
(* The -t flag on its own: validateTypesFlag, convertTypesToRegex and the  *)
(* match of executeDestroy applied to every flag value and status code of  *)
(* a bounded set.                                                          *)

TypeAlphabet == {"4", "0", "X", "x", "a"}

PairAlphabet == {"4", "0", "X"}

\* values of the -t flag: one token, two tokens, or the word none
TypeFlagInputs ==
    Strs(TypeAlphabet, MaxTokLen)
    \cup { a \o <<",">> \o b : a, b \in Strs(PairAlphabet, MaxPairTokLen) }
    \cup { <<"n", "o", "n", "e">>, <<"N", "o", "n", "e">> }

\* values of WebHook.LastResponse.Code
ProbeCodes == {0, 4, 40, 404, 440, 4040, 1404}

InitTypes ==
    /\ InitRun
    /\ apiKey = ""
    /\ probe \in { [ProbeOff EXCEPT !.pc = "flag", !.typesFlag = f] : f \in TypeFlagInputs }

\* executeDestroy: "Validate types"
ProbeValidate ==
    /\ probe.pc = "flag"
    /\ LET v == validateTypesFlag(probe.typesFlag)
       IN  probe' = [probe EXCEPT !.pc = IF v.err THEN "rejected" ELSE "validated",
                                  !.types = v.types,
                                  !.err = v.err]
    /\ UNCHANGED <<pc, exitCode, outcome, action, types, typesRegexString,
                   duplicatesFlag, untriggeredFlag, backupFlag, reposContainer, repoIdx,
                   allWebHooks, hooksMap, visited, currentItem, duplicateHookWrappers,
                   input, stdin, hooksToDestroy, destroyIdx, totalOutput, passPhrase,
                   backupFile, log, prompts, apiKey, typesFlag>>

\* executeDestroy: typesRegexString := convertTypesToRegex(types)
ProbeConvert ==
    /\ probe.pc = "validated"
    /\ probe' = [probe EXCEPT !.pc = "converted",
                              !.regex = convertTypesToRegex(probe.types)]
    /\ UNCHANGED <<pc, exitCode, outcome, action, types, typesRegexString,
                   duplicatesFlag, untriggeredFlag, backupFlag, reposContainer, repoIdx,
                   allWebHooks, hooksMap, visited, currentItem, duplicateHookWrappers,
                   input, stdin, hooksToDestroy, destroyIdx, totalOutput, passPhrase,
                   backupFile, log, prompts, apiKey, typesFlag>>

\* executeDestroy: "Check if hook should be destroyed" for a wrapper whose
\* hook has LastResponse.Code = code, with -u unset
ProbeMatch ==
    /\ probe.pc = "converted"
    /\ \E code \in ProbeCodes :
         LET m == MakeHooksMap(<< [URL |-> "e", ConfigURL |-> "", Code |-> code] >>)
         IN  probe' = [probe EXCEPT !.pc = "matched",
                                    !.code = m["e"].Code,
                                    !.matched = MarkDestroy(m, "e", probe.regex,
                                                            FALSE)["e"].Destroy]
    /\ UNCHANGED <<pc, exitCode, outcome, action, types, typesRegexString,
                   duplicatesFlag, untriggeredFlag, backupFlag, reposContainer, repoIdx,
                   allWebHooks, hooksMap, visited, currentItem, duplicateHookWrappers,
                   input, stdin, hooksToDestroy, destroyIdx, totalOutput, passPhrase,
                   backupFile, log, prompts, apiKey, typesFlag>>

NextTypes == ProbeValidate \/ ProbeConvert \/ ProbeMatch

SpecTypes == InitTypes /\ [][NextTypes]_vars

-----------------------------------------------------------------------------
(* Properties.                                                             *)

Range(q) == {q[i] : i \in 1..Len(q)}

IsGet(e) == e.op = "GET"

\* the GET requests issued so far, and the repositories fetched successfully
GetLog == SelectSeq(log, IsGet)

IsOkGet(e) == e.op = "GET" /\ e.ok

OkGets == SelectSeq(log, IsOkGet)

DeleteIssued == \E i \in 1..Len(log) : log[i].op = "DELETE"

\* the run has left the repository loop of executeCheck / executeDestroy
PastLoop ==
    \/ pc \in {"planned", "checkFinish", "confirm", "destroyWebHooks"}
    \/ pc = "exit" /\ outcome \in {"Found no hooks to destroy.", "Backup failed:",
                                   "Destruction aborted.", "Destruction completed.",
                                   "Error destroying all web hooks", "Check complete."}

\* the characters of a typed line, without its newline
RECURSIVE LineOf(_)
LineOf(buf) ==
    IF buf = <<>> \/ Head(buf) = "\n" THEN <<>> ELSE <<Head(buf)>> \o LineOf(Tail(buf))

\* pattern p, its X positions standing for any one digit, equals code c
PatternAgrees(p, c) ==
    /\ Len(p) = Len(c)
    /\ \A i \in 1..Len(p) : p[i] = c[i] \/ (p[i] = "X" /\ c[i] \in Digits)

\* token t is, in its entirety, three digits, a digit and XX, or two digits and X
FullShape(t) ==
    /\ Len(t) = 3
    /\ t[1] \in Digits
    /\ \/ t[2] \in Digits /\ t[3] \in Digits \cup {"x", "X"}
       \/ t[2] \in {"x", "X"} /\ t[3] \in {"x", "X"}

\* C1 (as claimed): the confirmation step goes on to the deletes exactly when
\* the operator's line, upper-cased and trimmed, equals the pass phrase; on
\* any other line the run ends with exit code 0, "Destruction aborted." and
\* no delete request.
C1_GateOnWholeLine ==
    [][ (pc = "confirm" /\ stdin # <<>> /\ pc' # "confirm")
        => IF TrimSpace(ToUpper(LineOf(stdin))) = passPhrase
           THEN pc' = "destroyWebHooks"
           ELSE /\ pc' = "exit"
                /\ exitCode' = 0
                /\ outcome' = "Destruction aborted."
                /\ ~\E i \in 1..Len(log') : log'[i].op = "DELETE" ]_vars

\* C2: in a destroy run with a backup path, every delete request comes after
\* a successful backup write, and a failed backup write leaves the run at
\* exit code 1 with no pass phrase generated, no confirmation read and no
\* delete request.
C2_BackupPrecedesDelete ==
    (action = "destroy" /\ backupFlag # "")
    => /\ \A i \in 1..Len(log) :
            log[i].op = "DELETE"
            => \E j \in 1..(i - 1) : log[j].op = "WRITE" /\ log[j].ok
       /\ (\E j \in 1..Len(log) : log[j].op = "WRITE" /\ ~log[j].ok)
            => /\ pc = "exit"
               /\ exitCode = 1
               /\ passPhrase = <<>>
               /\ input = <<>>
               /\ ~DeleteIssued

\* C2 witness: a destroy run with a backup path has issued a delete request.
C2_Witness == action = "destroy" /\ backupFlag # "" /\ DeleteIssued

\* C3 (as claimed): once the gate has passed and the run has ended, every
\* endpoint of the Destroy Set has received a delete request.
C3_EveryEndpointRequested ==
    (pc = "exit" /\ destroyIdx >= 1)
    => \A i \in 1..Len(hooksToDestroy) :
          \E j \in 1..Len(log) : log[j].op = "DELETE" /\ log[j].target = hooksToDestroy[i]

Selected(buf, old, wrappers) ==
    LET word == Replace(ToUpper(Scanln(buf, old).val), " ", <<>>)
        toks == Split(word, ",")
    IN  IF toks = << <<"N">> >> THEN {}
        ELSE {wrappers[Atoi(toks[i]).val + 1] : i \in 1..Len(toks)}

\* the code of wrapper w matches the compiled pattern, or -u is set and it is "0"
CodeCriterion(w) ==
    \/ MatchString(Compile(typesRegexString), w.Code)
    \/ untriggeredFlag /\ w.Code = <<"0">>

C5_DestroySetDuplicateFree ==
    \A i, j \in 1..Len(hooksToDestroy) : hooksToDestroy[i] = hooksToDestroy[j] => i = j

\* C6 (as claimed): a wrapper is code-matched exactly when some validated
\* pattern has the length of its code and agrees with it at every position,
\* X agreeing with any digit.
C6_MatchIffPatternAgrees ==
    probe.pc = "matched"
    => (probe.matched
        <=> \E k \in 1..Len(probe.types) : PatternAgrees(probe.types[k], probe.code))

\* C7 (as claimed): validateTypesFlag returns an error for every list, other
\* than the word none, with a token that is not in its entirety of an
\* accepted shape.
C7_RejectsNonShapeTokens ==
    (/\ probe.pc \in {"validated", "rejected"}
     /\ ToLower(probe.typesFlag) # <<"n", "o", "n", "e">>
     /\ \E t \in Range(Split(probe.typesFlag, ",")) : ~FullShape(t))
    => probe.err

\* hook h of the list hooks shares a non-empty config URL with another one
InCluster(hooks, url) ==
    \E i, j \in 1..Len(hooks) :
        /\ hooks[i].URL = url
        /\ hooks[j].URL # url
        /\ hooks[i].ConfigURL # ""
        /\ hooks[i].ConfigURL = hooks[j].ConfigURL

\* the endpoints of the clustered hooks of each repository
ClusteredURLs ==
    [r \in DOMAIN Remote |->
        {Remote[r][i].URL : i \in {k \in 1..Len(Remote[r]) :
                                      InCluster(Remote[r], Remote[r][k].URL)}}]

\* C8: when the classification loop of a repository is over, in check and in
\* destroy mode, a wrapper is marked Duplicate exactly when its config URL is
\* not empty and another wrapper of the repository has the same one; the
\* report carries the same tags.
C8_DuplicateIffSharedConfigURL ==
    /\ (pc = "classify" /\ visited = DOMAIN hooksMap)
       => \A u \in DOMAIN hooksMap :
             hooksMap[u].Duplicate
             <=> /\ hooksMap[u].Hook.ConfigURL # ""
                 /\ \E v \in DOMAIN hooksMap \ {u} :
                       hooksMap[v].Hook.ConfigURL = hooksMap[u].Hook.ConfigURL
    /\ \A b \in 1..Len(totalOutput) : \A ln \in totalOutput[b].Lines :
          ln.Duplicate <=> ln.URL \in ClusteredURLs[totalOutput[b].Name]

\* C8 witness: a classification has ended with a cluster of three marked.
C8_Witness ==
    /\ pc = "classify"
    /\ visited = DOMAIN hooksMap
    /\ Cardinality({u \in DOMAIN hooksMap : hooksMap[u].Duplicate}) = 3

RECURSIVE HooksOf(_)
HooksOf(gets) == IF gets = <<>> THEN <<>> ELSE Remote[Head(gets).target] \o HooksOf(Tail(gets))

\* the endpoints of the hooks of each repository
EndpointsOf == [r \in DOMAIN Remote |-> {Remote[r][i].URL : i \in 1..Len(Remote[r])}]

\* C9: the repositories are fetched in list order and all of them once the
\* loop is left, whatever fetches failed; the report has one block per
\* successful fetch (the one in progress excepted), the backup set holds the
\* hooks of the successful fetches only, the Destroy Set holds endpoints of
\* successfully fetched repositories only, and no run ends on a fetch.
C9_FailedFetchSkipsRepository ==
    action \in {"check", "destroy"}
    => LET gets == GetLog
           okGets == OkGets
       IN  /\ Len(gets) <= Len(reposContainer)
           /\ \A i \in 1..Len(gets) : gets[i].target = reposContainer[i]
           /\ PastLoop => Len(gets) = Len(reposContainer)
           /\ Len(totalOutput) =
                 Len(okGets) - (IF pc \in {"classify", "duplicateDiff"} THEN 1 ELSE 0)
           /\ \A b \in 1..Len(totalOutput) : totalOutput[b].Name = okGets[b].target
           /\ backupFlag # "" => allWebHooks = HooksOf(okGets)
           /\ \A u \in Range(hooksToDestroy) :
                 \E g \in 1..Len(okGets) : u \in EndpointsOf[okGets[g].target]
           /\ (pc = "exit" /\ Len(log) > 0) => PastLoop

\* C9 witness: past the loop, a failed fetch was followed by a successful
\* one, whose repository alone is in the report.
C9_Witness ==
    /\ PastLoop
    /\ Len(log) >= 2
    /\ log[1].op = "GET" /\ ~log[1].ok
    /\ log[2].op = "GET" /\ log[2].ok
    /\ Len(totalOutput) = 1

\* C10: a destroy run that has gone past the test of an empty Destroy Set
\* with an empty Destroy Set has ended with exit code 0 and "Found no hooks to destroy.", with no pass
\* phrase generated, no confirmation read and no delete request.
C10_EmptySetEndsQuietly ==
    (action = "destroy" /\ PastLoop /\ pc # "planned" /\ hooksToDestroy = <<>>)
    => /\ pc = "exit"
       /\ exitCode = 0
       /\ outcome = "Found no hooks to destroy."
       /\ passPhrase = <<>>
       /\ input = <<>>
       /\ ~DeleteIssued

\* C10 witness: a destroy run fetched a repository and ended with nothing to
\* destroy.
C10_Witness ==
    /\ action = "destroy"
    /\ pc = "exit"
    /\ outcome = "Found no hooks to destroy."
    /\ Len(OkGets) >= 1

\* C11: in check mode no delete request is issued, no duplicate or
\* confirmation prompt is reached, nothing is read from the operator, no
\* pass phrase is generated, and no wrapper is marked for destruction, in the
\* map or in the report.
C11_CheckModeReadOnly ==
    action = "check"
    => /\ ~DeleteIssued
       /\ prompts = 0
       /\ pc \notin {"duplicateDiff", "planned", "confirm", "destroyWebHooks"}
       /\ stdin = <<>>
       /\ passPhrase = <<>>
       /\ hooksToDestroy = <<>>
       /\ \A u \in DOMAIN hooksMap : ~hooksMap[u].Destroy
       /\ \A b \in 1..Len(totalOutput) : \A ln \in totalOutput[b].Lines : ~ln.ToBeDestroyed

\* C11 witness: a check run over two fetched repositories has ended.
C11_Witness ==
    /\ action = "check"
    /\ pc = "exit"
    /\ outcome = "Check complete."
    /\ Len(totalOutput) = 2

-----------------------------------------------------------------------------
(* The run for one repository, over a wider set of -t values and with a   *)
(* repository of two clusters.                                             *)

\* values of the -t flag the runs of SpecOne are started with
WideTypesFlags ==
    { <<"4", "X", "X">>, <<"4", "X">>, <<"4", "X", "X", "X">>, <<"a", "4", "0", "4">> }

\* the repos files of SpecOne
OneRepoFiles ==
    { [state |-> "missing", repos |-> <<>>], [state |-> "json", repos |-> <<"o/r2">>] }

NextOne ==
    \/ /\ pc = "main"
       /\ \E checkFlag, destroyFlag, ds \in BOOLEAN :
            \E filePath \in {"", "repos.json"}, repoFlag \in {"", "o/r1", "o/r3"},
               tFlag \in WideTypesFlags, file \in OneRepoFiles :
               Main(checkFlag, destroyFlag, filePath, repoFlag, tFlag, ds, FALSE, "", file)
    \/ /\ pc # "main"
       /\ Next

SpecOne == Init /\ [][NextOne]_vars

\* the -t value flag is not the word none and has a token that is not, in
\* its entirety, of an accepted shape
InvalidPattern(flag) ==
    /\ ToLower(flag) # <<"n", "o", "n", "e">>
    /\ \E t \in Range(Split(flag, ",")) : ~FullShape(t)

\* C12 (as claimed): a run with a missing credential, or a destroy run with
\* an invalid status-code pattern, that has gone past the validation of its
\* configuration has ended with a non-zero exit code and without any request.
C12_ConfigErrorsExitBeforeRequests ==
    /\ (apiKey = "" /\ pc # "main")
       => (pc = "exit" /\ exitCode = 1 /\ log = <<>>)
    /\ (action = "destroy" /\ pc \notin {"main", "executeDestroy"}
        /\ InvalidPattern(typesFlag))
       => (pc = "exit" /\ exitCode = 1 /\ log = <<>>)


\* C13 (as claimed): a run whose repository list is empty never goes on to
\* the check or the destroy action: past main it has ended with exit code 1.
C13_EmptyRepositoryListAborts ==
    (pc # "main" /\ reposContainer = <<>>)
    => (pc = "exit" /\ exitCode = 1 /\ action = "")


\* C14 (as claimed): between any two fetch requests of a run the log shows a
\* delay step.
C14_DelayBetweenFetches ==
    \A i, j \in 1..Len(log) :
        (i < j /\ log[i].op = "GET" /\ log[j].op = "GET")
        => \E k \in (i + 1)..(j - 1) : log[k].op = "SLEEP"


\* the comma-separated tokens of the line typed in buf, upper-cased and with
\* its spaces removed
LineTokens(buf) == Split(Replace(ToUpper(LineOf(buf)), " ", <<>>), ",")

\* C15 (as claimed): when the resolver reads a line that is not the sentinel
\* 'n' and has a token that is not an integer in [0, clusterSize-1], no
\* wrapper's destruction flag changes and the prompt repeats.
C15_InvalidLineRepeatsPrompt ==
    [][ (/\ pc = "duplicateDiff"
         /\ stdin # <<>>
         /\ LineTokens(stdin) # << <<"N">> >>
         /\ ~ResolverValid(LineTokens(stdin), Len(duplicateHookWrappers)))
        => /\ pc' = "duplicateDiff"
           /\ \A u \in DOMAIN hooksMap : hooksMap'[u].Destroy = hooksMap[u].Destroy
      ]_vars


\* C16 (as claimed): the run reports "Destruction completed." only when
\* every endpoint of the Destroy Set has a delete request answered 204; a
\* failed delete leaves the run at exit code 1 with an error report; and no
\* endpoint whose delete succeeded receives another delete request.
C16_CompletedOnlyIfAllDeleted ==
    /\ (pc = "exit" /\ outcome = "Destruction completed.")
       => \A i \in 1..Len(hooksToDestroy) :
             \E j \in 1..Len(log) :
                log[j] = [op |-> "DELETE", target |-> hooksToDestroy[i], ok |-> TRUE]
    /\ (\E j \in 1..Len(log) : log[j].op = "DELETE" /\ ~log[j].ok)
       => (pc = "exit" /\ exitCode = 1 /\ outcome = "Error destroying all web hooks")
    /\ \A i, j \in 1..Len(log) :
          (i < j /\ log[i].op = "DELETE" /\ log[i].ok /\ log[j].op = "DELETE")
          => log[j].target # log[i].target


\* C17: a backup file that was written holds exactly the records of the
\* successful fetches of the run, repository after repository in list
\* order, each repository's records in the order the remote returned them.
C17_BackupIsFetchedRecords ==
    backupFile.written => backupFile.hooks = HooksOf(OkGets)

\* C17 witness: a backup was written in a destroy run in which a fetch
\* failed, another succeeded and the operator answered a duplicate prompt.
C17_Witness ==
    /\ backupFile.written
    /\ action = "destroy"
    /\ prompts >= 1
    /\ Len(OkGets) >= 1
    /\ Len(GetLog) > Len(OkGets)
    /\ Len(backupFile.hooks) = 3


\* sequence a is an initial part of sequence b
IsPrefix(a, b) == Len(a) <= Len(b) /\ SubSeq(b, 1, Len(a)) = a

\* C18: every step issues at most one request, after the ones before it; a
\* fetch is issued only when no repository is in progress: no wrapper map,
\* no cluster waiting for an answer, every fetched repository in the report
\* and every endpoint tagged there in the Destroy Set; and the Destroy Set
\* and the report only grow by appending.
C18_StrictlySequential ==
    [][ /\ IsPrefix(log, log')
        /\ Len(log') <= Len(log) + 1
        /\ (Len(log') > Len(log) /\ log'[Len(log')].op = "GET")
           => /\ pc = "fetch"
              /\ DOMAIN hooksMap = {}
              /\ visited = {}
              /\ currentItem = ""
              /\ duplicateHookWrappers = <<>>
              /\ Len(totalOutput) = Len(OkGets)
              /\ \A b \in 1..Len(totalOutput) : \A ln \in totalOutput[b].Lines :
                    ln.ToBeDestroyed => ln.URL \in Range(hooksToDestroy)
        /\ IsPrefix(hooksToDestroy, hooksToDestroy')
        /\ IsPrefix(totalOutput, totalOutput')
      ]_vars

\* C18 witness: the second repository was fetched after the first one had
\* its duplicate prompt answered and an endpoint added to the Destroy Set.
C18_Witness ==
    /\ pc = "classify"
    /\ Len(OkGets) = 2
    /\ Len(totalOutput) = 1
    /\ prompts >= 1
    /\ Len(hooksToDestroy) >= 1


\* the number of duplicate clusters among the hooks of a repository
NClusters(hooks) ==
    Cardinality({hooks[i].ConfigURL : i \in {k \in 1..Len(hooks) : InCluster(hooks, hooks[k].URL)}})

\* the number of duplicate clusters of the repositories of the report blocks
RECURSIVE ClustersReported(_)
ClustersReported(blocks) ==
    IF blocks = <<>> THEN 0
    ELSE NClusters(Remote[Head(blocks).Name]) + ClustersReported(Tail(blocks))

\* C19: in a destroy run the resolver waits for an answer only with -ds set
\* and for a cluster of two or more: the current wrapper, whose config URL is
\* not empty, and every other wrapper of the map with that config URL, each
\* once and no other; and the number of prompts so far is the number of
\* clusters of the repositories folded so far plus the number of clusters
\* already marked in the repository in progress (none without -ds).
C19_EachClusterPresentedOnce ==
    action = "destroy"
    => /\ pc = "duplicateDiff"
          => /\ duplicatesFlag
             /\ Len(duplicateHookWrappers) >= 2
             /\ duplicateHookWrappers[1] = currentItem
             /\ hooksMap[currentItem].Hook.ConfigURL # ""
             /\ \A i, j \in 1..Len(duplicateHookWrappers) :
                   duplicateHookWrappers[i] = duplicateHookWrappers[j] => i = j
             /\ Range(duplicateHookWrappers)
                  = {v \in DOMAIN hooksMap :
                       hooksMap[v].Hook.ConfigURL = hooksMap[currentItem].Hook.ConfigURL}
       /\ prompts =
             IF duplicatesFlag
             THEN ClustersReported(totalOutput)
                  + Cardinality({hooksMap[v].Hook.ConfigURL :
                                    v \in {w \in DOMAIN hooksMap : hooksMap[w].Duplicate}})
             ELSE 0

\* C19 witness: with -ds, o/r3, which has two clusters of two, has been
\* folded into the plan after exactly two prompts.
C19_Witness ==
    /\ action = "destroy"
    /\ duplicatesFlag
    /\ pc = "planned"
    /\ reposContainer = <<"o/r3">>
    /\ Len(totalOutput) = 1
    /\ prompts = 2


\* the endpoints a report block tags as to be destroyed
TaggedURLs(block) == {ln.URL : ln \in {l \in block.Lines : l.ToBeDestroyed}}

\* the plan is, block after block, the tagged endpoints of the block, each once
RECURSIVE PlanMatches(_, _)
PlanMatches(blocks, plan) ==
    IF blocks = <<>> THEN plan = <<>>
    ELSE LET n == Cardinality(TaggedURLs(Head(blocks)))
         IN  /\ Len(plan) >= n
             /\ Range(SubSeq(plan, 1, n)) = TaggedURLs(Head(blocks))
             /\ PlanMatches(Tail(blocks), SubSeq(plan, n + 1, Len(plan)))

\* the targets of the delete requests issued so far
IsDelete(e) == e.op = "DELETE"

DeleteLog == SelectSeq(log, IsDelete)

\* the hook of repository name whose endpoint is url meets the code criterion
LineMeetsCodeCriterion(name, url) ==
    \E i \in 1..Len(Remote[name]) :
        /\ Remote[name][i].URL = url
        /\ CodeCriterion([Code |-> ToUpper(Itoa(Remote[name][i].Code))])

\* C20 (as claimed, its last part): the report tags a wrapper as to be
\* destroyed exactly when its endpoint is in the Destroy Set.
C20_TaggedIffInDestroySet ==
    action = "destroy"
    => \A b \in 1..Len(totalOutput) : \A ln \in totalOutput[b].Lines :
          ln.ToBeDestroyed <=> ln.URL \in Range(hooksToDestroy)

\* the rest of C20, in every state of a destroy run
C20_State ==
    action = "destroy"
    => /\ Len(DeleteLog) <= Len(hooksToDestroy)
       /\ \A i \in 1..Len(DeleteLog) : DeleteLog[i].target = hooksToDestroy[i]
       /\ PlanMatches(totalOutput, hooksToDestroy)
       /\ \A b \in 1..Len(totalOutput) : \A ln \in totalOutput[b].Lines :
             (ln.ToBeDestroyed /\ ~LineMeetsCodeCriterion(totalOutput[b].Name, ln.URL))
             => (duplicatesFlag /\ ln.Duplicate)

\* the rest of C20, on every step of a destroy run
C20_Step ==
    action = "destroy"
    => \A u \in DOMAIN hooksMap' :
          hooksMap'[u].Destroy
          => /\ u \in DOMAIN hooksMap
             /\ \/ hooksMap[u].Destroy
                \/ /\ pc = "duplicateDiff" /\ pc' = "classify"
                   /\ u \in Selected(stdin, input, duplicateHookWrappers)
                \/ u \in visited' \ visited /\ CodeCriterion(hooksMap[u])

\* C20, the rest of it, which holds (also when a repository is listed
\* twice): in a destroy run the delete requests go, in order, to the
\* entries of the Destroy Set; the Destroy Set is, block after block of the
\* report, the endpoints the block tags as to be destroyed, each once per
\* block; a tagged wrapper whose code does not meet the code criterion is a
\* member of a cluster shown with -ds; and a wrapper's Destroy flag is set
\* only when the operator's accepted answer lists it or when its iteration
\* ends and its code matches the compiled pattern or is "0" with -u.
C20_DeletedOnlyIfMarked == []C20_State /\ [][C20_Step]_vars


\* the cluster members a line of valid tokens lists ('n': none)
Listed(toks, wrappers) ==
    IF toks = << <<"N">> >> THEN {}
    ELSE {wrappers[Atoi(toks[i]).val + 1] : i \in 1..Len(toks)}

\* C21 (as claimed): when the resolver reads a line that is the sentinel 'n'
\* or whose tokens are all integers in [0, clusterSize-1], the destruction
\* flag is set on exactly the cluster members the line lists (none for 'n',
\* a repeated index counting once) and no other wrapper's flag changes,
\* apart from the flag of the wrapper whose iteration then ends, which the
\* code criterion may set.
C21_ListedMembersMarked ==
    [][ (/\ pc = "duplicateDiff"
         /\ stdin # <<>>
         /\ \/ LineTokens(stdin) = << <<"N">> >>
            \/ ResolverValid(LineTokens(stdin), Len(duplicateHookWrappers)))
        => \A u \in DOMAIN hooksMap :
              hooksMap'[u].Destroy
              <=> \/ hooksMap[u].Destroy
                  \/ u \in Listed(LineTokens(stdin), duplicateHookWrappers)
                  \/ u = currentItem /\ CodeCriterion(hooksMap[u])
      ]_vars


IsWrite(e) == e.op = "WRITE"

\* C22: a run attempts a backup write at most once, and only once its
\* repositories are all processed; a run that has ended has attempted one
\* exactly when the backup path is non-empty and either the check action
\* ran, or the destroy action ran and left a non-empty Destroy Set; a destroy
\* run that found no hooks to destroy attempted none and wrote no file; and
\* a check run whose write failed has ended with exit code 1.
C22_BackupAttemptedIff ==
    LET writes == SelectSeq(log, IsWrite)
    IN  /\ Len(writes) <= 1
        /\ pc = "exit"
           => (writes # <<>>
               <=> /\ backupFlag # ""
                   /\ \/ action = "check"
                      \/ action = "destroy" /\ hooksToDestroy # <<>>)
        /\ pc # "exit"
           => (writes # <<>>
               <=> backupFlag # "" /\ pc \in {"confirm", "destroyWebHooks"})
        /\ (action = "destroy" /\ outcome = "Found no hooks to destroy.")
           => writes = <<>> /\ ~backupFile.written
        /\ (action = "check" /\ writes # <<>> /\ ~writes[1].ok)
           => pc = "exit" /\ exitCode = 1 /\ ~backupFile.written

\* C22 witness: a destroy run with a backup path fetched hook records, found
\* none to destroy and ended without a backup write.
C22_Witness ==
    /\ action = "destroy"
    /\ backupFlag # ""
    /\ pc = "exit"
    /\ outcome = "Found no hooks to destroy."
    /\ allWebHooks # <<>>
    /\ ~backupFile.written
    /\ ~\E i \in 1..Len(log) : IsWrite(log[i])

=============================================================================
